---- MODULE Spec2Model ----
(***************************************************************************)
(* A model of rbdc: the FastPool connection pool (rbdc-pool-fast), the     *)
(* ConnectionManager it drives, and the Connection implementations of the  *)
(* Turso and MSSQL adapters.                                               *)
(***************************************************************************)
EXTENDS Integers, Sequences, FiniteSets, TLC

\* ------------------------------------------------------------------ bounds
NTasks == 2
MaxOpenBound == 2
MaxConnects == 2
MaxNow == 2
MaxKey == 2
MaxCols == 2
MaxSqlLen == 4

\* ------------------------------------------------------- program constants
\* Duration::from_secs(10), the window get_timeout(0) uses when capacity is free
DefaultWindow == 10
\* Option<Duration>::None
NoneD == -1

Tasks == 1..NTasks
ConnIds == 1..MaxConnects
\* the durations callers pass (0 is Duration::ZERO)
Durations == {0, 1}
OptDurations == {NoneD, 1}

\* error strings
ErrTimeOut == "Time out in the connection pool"
ErrInnerTimeout == "get_timeout"
ErrConnect == "connect error"
ErrMssqlClosed == "MssqlConnection is close"
ErrEngine == "engine error"

VARIABLES
    \* ---- FastPool and the pool it wraps
    max_open,       \* State.max_open
    connections,    \* State.connections: live connections
    in_use,         \* State.in_use: connections held by guards
    waits,          \* State.waits: callers inside an acquire
    waitq,          \* the waiting callers, oldest first
    timeout,        \* FastPool.timeout (AtomicDuration)
    max_lifetime,   \* the pool's max-lifetime knob
    conn_state,     \* per connection, its place: unborn | idle | held | gone | failed
    conn_closed,    \* per connection: close() was called on it
    broken,         \* per live connection: its ping fails
    born,           \* per connection: time of connect
    now,            \* the clock
    connects,       \* number of Manager.connect calls so far
    pc,             \* per task: idle | waiting | holding
    guard,          \* per task: the connection its guard owns (0: none)
    window,         \* per task: the timeout of its pending acquire
    result,         \* the outcome of the last completed call
    \* ---- history of the pool, read only by properties
    req_lifetime,   \* the last argument of set_conn_max_lifetime
    hand_age,       \* per task: age of its connection when handed out
    last_ret,       \* the last guard drop, then what the next get() was given
    \* ---- connections of the adapters
    kind,           \* which adapter the connection under test belongs to
    inner,          \* MssqlConnection.inner: "Some" | "None"
    rows,           \* engine: the visible rows (primary keys)
    depth,          \* engine: open transaction depth
    snapshot,       \* engine: rows at the outermost begin
    last_op,        \* history: the last Connection method called
    last_arg,       \* history: its statement
    last_res,       \* history: its result, "ok" or an error string
    closed_before,  \* history: close() had returned before the last call
    close_returned, \* history: close() has returned
    tx_base,        \* history: rows visible at the begin of the open block
    pre_rows,       \* history: rows visible before the last call
    \* ---- a result row of the adapters
    row_kind,       \* which adapter's Row: "turso" | "mssql"
    row_values,     \* TursoRow.values / MssqlRow.datas: the cell slots
    row_json_detect,\* TursoRow.json_detect
    row_orig,       \* history: the cells the row was built with
    row_idx,        \* history: the index of the last get
    row_seen,       \* history: the valid indices get was called with
    row_res,        \* history: the result of the last get
    \* ---- placeholder exchange
    ex_p,           \* start_str: the placeholder prefix, as bytes
    ex_n,           \* start_num
    ex_sql,         \* sql, as bytes
    ex_pc,          \* "start" | "once" | "twice": applications made so far
    ex_out,         \* the output of impl_exchange(ex_p, ex_n, ex_sql)
    ex_subs,        \* the number of substitutions it made
    ex_out2,        \* the output of impl_exchange(ex_p, ex_n, ex_out)
    ex_outc,        \* the output of util::impl_exchange, the char iteration
    ex_cdone,       \* the char iteration has run
    \* ---- TursoConnectOptions
    opt,            \* the options: url, auth_token, in_memory, json_detect
    opt_op,         \* history: the last operation on the options
    opt_scheme,     \* history: the scheme part of the last URI parsed
    opt_path,       \* history: its path part
    opt_query,      \* history: its query part
    opt_res,        \* history: the result of the last operation
    opt_db,         \* history: the database builder the last connect_turso ran
    \* ---- Connection::exec of the Turso adapter and its ExecResult
    tbl,            \* libsql: the rowids of the table
    last_rowid,     \* libsql: Connection::last_insert_rowid()
    exec_stmt,      \* history: the statement of the last exec
    exec_pre,       \* history: the rowids before the last exec
    exec_res,       \* history: the result of the last exec
    \* ---- the deviation registry, its validator and the release gate
    registry,       \* REGISTRY: the deviation records
    val_res,        \* the ValidationResult of the last validate_registry
    gate_res,       \* the GateResult of the last evaluate
    reg_edit,       \* history: the last change made to the registry
    \* ---- execute_query of the Turso adapter and the rows it builds
    q_reported,     \* libsql: what Rows::column_type(i) answers, per column
    q_data,         \* libsql: the rows of the result, as value types
    q_rows,         \* the TursoRows execute_query returned
    q_pc,           \* "start" | "done": execute_query has returned
    \* ---- PgConnection::establish
    pg_pc,          \* "startup": in the loop | "ready": Ok(PgConnection) | "failed": Err
    pg_msgs,        \* history: the messages recv has returned, oldest first
    pg_key,         \* process_id / secret_key
    pg_sent,        \* history: what establish has sent after the Startup message
    pg_res,         \* the error establish returned ("": none)
    \* ---- MySQL binary format of fastdate::Time
    t_in,           \* the Time that is encoded
    t_buf,          \* the bytes Encode pushed
    t_out,          \* the Time Decode returned
    t_pc            \* "start" | "encoded" | "decoded"

poolvars == <<max_open, connections, in_use, waits, waitq, timeout, max_lifetime,
              conn_state, conn_closed, broken, born, now, connects, pc, guard,
              window, result, req_lifetime, hand_age, last_ret>>
connvars == <<kind, inner, rows, depth, snapshot, last_op, last_arg, last_res,
              closed_before, close_returned, tx_base, pre_rows>>
rowvars == <<row_kind, row_values, row_json_detect, row_orig, row_idx, row_seen,
             row_res>>
exvars == <<ex_p, ex_n, ex_sql, ex_pc, ex_out, ex_subs, ex_out2, ex_outc, ex_cdone>>
optvars == <<opt, opt_op, opt_scheme, opt_path, opt_query, opt_res, opt_db>>
execvars == <<tbl, last_rowid, exec_stmt, exec_pre, exec_res>>
gatevars == <<registry, val_res, gate_res, reg_edit>>
queryvars == <<q_reported, q_data, q_rows, q_pc>>
pgvars == <<pg_pc, pg_msgs, pg_key, pg_sent, pg_res>>
timevars == <<t_in, t_buf, t_out, t_pc>>
besidePool == <<connvars, rowvars, exvars, optvars,
      execvars, gatevars, queryvars, pgvars, timevars>>
besideConn == <<poolvars, rowvars, exvars, optvars,
      execvars, gatevars, queryvars, pgvars, timevars>>
besideRow == <<poolvars, connvars, exvars, optvars,
      execvars, gatevars, queryvars, pgvars, timevars>>
besideEx == <<poolvars, connvars, rowvars, optvars,
      execvars, gatevars, queryvars, pgvars, timevars>>
besideOpt == <<poolvars, connvars, rowvars, exvars,
      execvars, gatevars, queryvars, pgvars, timevars>>
besideExec == <<poolvars, connvars, rowvars, exvars,
      optvars, gatevars, queryvars, pgvars, timevars>>
besideGate == <<poolvars, connvars, rowvars, exvars,
      optvars, execvars, queryvars, pgvars, timevars>>
besideQuery == <<poolvars, connvars, rowvars, exvars,
      optvars, execvars, gatevars, pgvars, timevars>>
besidePg == <<poolvars, connvars, rowvars, exvars,
      optvars, execvars, gatevars, queryvars, timevars>>
besideTime == <<poolvars, connvars, rowvars, exvars,
      optvars, execvars, gatevars, queryvars, pgvars>>
vars == <<poolvars, connvars, rowvars, exvars, optvars,
         execvars, gatevars, queryvars, pgvars, timevars>>

\* ================================================================== pool

Idle == {c \in ConnIds : conn_state[c] = "idle"}
Age(c) == now - born[c]
NoRet == [kind |-> "none", conn |-> 0]
\* the history after a get() is served connection c: which connection the
\* first get() after a healthy ("ok") or failed ("bad") drop was given
AfterServe(r, c) ==
    CASE r.kind = "ok" -> [kind |-> "after_ok", conn |-> c]
      [] r.kind = "bad" -> [kind |-> "after_bad", conn |-> c]
      [] OTHER -> NoRet

\* removes task t from the waiter queue
RemoveWaiterMutant(q, t) == q
RemoveWaiter(q, t) == SelectSeq(q, LAMBDA x : x # t)

\* FastPool::get_timeout, the d == 0 test: state.in_use < state.max_open
CapacityNowMutant(inUse, maxOpen) == inUse <= maxOpen
CapacityNow(inUse, maxOpen) == inUse < maxOpen

\* whether waiter t is the one the pool serves next: the oldest
IsNextWaiterMutant(q, t) == \E i \in 1..Len(q) : q[i] = t
IsNextWaiter(q, t) == q # <<>> /\ t = Head(q)

\* the pool's room test before a connect: connections < max_open
HasRoomMutant(conns, maxOpen) == conns <= maxOpen
HasRoom(conns, maxOpen) == conns < maxOpen

\* Connection::ping of a pooled connection
Ping(c) == ~broken[c]

\* ConnectionManager::check: Ok iff conn.ping() is Ok
ManagerCheckAlwaysOk(c) == TRUE
ManagerCheckAlwaysErr(c) == FALSE
ManagerCheck(c) == Ping(c)

\* ConnManagerProxy::check: the manager's verdict; on Err the connection is
\* closed before the error is returned
ProxyCheck(c) ==
    LET r == ManagerCheck(c)
    IN  IF r THEN [ok |-> TRUE, closed |-> FALSE] ELSE [ok |-> FALSE, closed |-> TRUE]

\* FastPool::set_conn_max_lifetime: logs "not support", stores nothing
StoreMaxLifetimeMutant(cur, l) == l
StoreMaxLifetime(cur, l) == cur

PoolInit ==
    /\ max_open \in 1..MaxOpenBound
    /\ connections = 0
    /\ in_use = 0
    /\ waits = 0
    /\ waitq = <<>>
    /\ timeout = NoneD
    /\ max_lifetime = NoneD
    /\ conn_state = [c \in ConnIds |-> "unborn"]
    /\ conn_closed = [c \in ConnIds |-> FALSE]
    /\ broken = [c \in ConnIds |-> FALSE]
    /\ born = [c \in ConnIds |-> 0]
    /\ now = 0
    /\ connects = 0
    /\ pc = [t \in Tasks |-> "idle"]
    /\ guard = [t \in Tasks |-> 0]
    /\ window = [t \in Tasks |-> NoneD]
    /\ result = "none"
    /\ req_lifetime = NoneD
    /\ hand_age = [t \in Tasks |-> 0]
    /\ last_ret = NoRet

\* the caller enters the pool's acquire with timeout d (None: wait for ever)
EnterAcquire(t, d) ==
    /\ pc' = [pc EXCEPT ![t] = "waiting"]
    /\ window' = [window EXCEPT ![t] = d]
    /\ waits' = waits + 1
    /\ waitq' = Append(waitq, t)
    /\ UNCHANGED <<max_open, connections, in_use, timeout, max_lifetime, conn_state,
                   conn_closed, broken, born, now, connects, guard, result, req_lifetime, hand_age,
                   last_ret>>

\* FastPool::get: inner.get_timeout(self.timeout.get())
Get(t) ==
    /\ pc[t] = "idle"
    /\ UNCHANGED besidePool
    /\ EnterAcquire(t, timeout)

\* FastPool::get_timeout(d)
GetTimeout(t, d) ==
    /\ pc[t] = "idle"
    /\ UNCHANGED besidePool
    /\ IF d = 0
       THEN IF CapacityNow(in_use, max_open)
            THEN EnterAcquire(t, DefaultWindow)
            ELSE /\ result' = ErrTimeOut
                 /\ UNCHANGED <<max_open, connections, in_use, waits, waitq, timeout,
                                max_lifetime, conn_state, conn_closed, broken, born, now,
                                connects, pc, guard, window, req_lifetime, hand_age, last_ret>>
       ELSE EnterAcquire(t, d)

\* the acquire of the oldest waiter hands out connection c
HandOut(t, c) ==
    /\ conn_state' = [conn_state EXCEPT ![c] = "held"]
    /\ in_use' = in_use + 1
    /\ pc' = [pc EXCEPT ![t] = "holding"]
    /\ guard' = [guard EXCEPT ![t] = c]
    /\ window' = [window EXCEPT ![t] = NoneD]
    /\ result' = "ok"
    /\ waits' = waits - 1
    /\ waitq' = RemoveWaiter(waitq, t)
    /\ last_ret' = AfterServe(last_ret, c)

\* the oldest waiter takes an idle connection; an over-age one is discarded
\* and the waiter tries again
ServeIdle(t) ==
    /\ pc[t] = "waiting" /\ IsNextWaiter(waitq, t)
    /\ UNCHANGED besidePool
    /\ \E c \in Idle :
        IF max_lifetime # NoneD /\ Age(c) > max_lifetime
        THEN /\ conn_state' = [conn_state EXCEPT ![c] = "gone"]
             /\ conn_closed' = [conn_closed EXCEPT ![c] = TRUE]
             /\ broken' = [broken EXCEPT ![c] = FALSE]
             /\ born' = [born EXCEPT ![c] = 0]
             /\ connections' = connections - 1
             /\ UNCHANGED <<in_use, pc, guard, window, result, waits, waitq, last_ret,
                            hand_age, connects>>
        ELSE /\ HandOut(t, c)
             /\ hand_age' = [hand_age EXCEPT ![t] = Age(c)]
             /\ UNCHANGED <<connections, conn_closed, broken, born, connects>>
    /\ UNCHANGED <<max_open, timeout, max_lifetime, now, req_lifetime>>

\* the oldest waiter finds no idle connection and room for one more: connect
ServeConnect(t) ==
    /\ pc[t] = "waiting" /\ IsNextWaiter(waitq, t)
    /\ UNCHANGED besidePool
    /\ Idle = {}
    /\ HasRoom(connections, max_open)
    /\ connects < MaxConnects
    /\ connects' = connects + 1
    /\ LET c == connects + 1 IN
       \/ /\ HandOut(t, c)
          /\ connections' = connections + 1
          /\ born' = [born EXCEPT ![c] = now]
          /\ hand_age' = [hand_age EXCEPT ![t] = 0]
       \/ /\ conn_state' = [conn_state EXCEPT ![c] = "failed"]
          /\ pc' = [pc EXCEPT ![t] = "idle"]
          /\ window' = [window EXCEPT ![t] = NoneD]
          /\ result' = ErrConnect
          /\ waits' = waits - 1
          /\ waitq' = RemoveWaiter(waitq, t)
          /\ UNCHANGED <<connections, in_use, guard, born, hand_age, last_ret>>
    /\ UNCHANGED <<max_open, timeout, max_lifetime, conn_closed, broken, now,
                   req_lifetime>>

\* the waiter leaves the acquire without a connection
LeaveAcquire(t, res) ==
    /\ pc' = [pc EXCEPT ![t] = "idle"]
    /\ window' = [window EXCEPT ![t] = NoneD]
    /\ result' = res
    /\ waits' = waits - 1
    /\ waitq' = RemoveWaiter(waitq, t)
    /\ UNCHANGED <<max_open, connections, in_use, timeout, max_lifetime, conn_state,
                   conn_closed, broken, born, now, connects, guard, req_lifetime, hand_age,
                   last_ret>>

\* the acquire timeout of a waiter fires
TimeoutFires(t) ==
    /\ pc[t] = "waiting"
    /\ UNCHANGED besidePool
    /\ window[t] # NoneD
    /\ LeaveAcquire(t, ErrInnerTimeout)

\* the caller drops its pending get()/get_timeout() future
Cancel(t) ==
    /\ pc[t] = "waiting"
    /\ UNCHANGED besidePool
    /\ LeaveAcquire(t, "cancelled")

\* the guard of task t is dropped: the connection is checked and returned,
\* or closed and its slot freed
DropGuard(t) ==
    /\ pc[t] = "holding"
    /\ UNCHANGED besidePool
    /\ LET c == guard[t]
           chk == ProxyCheck(c)
       IN  /\ conn_closed' = [conn_closed EXCEPT ![c] = chk.closed]
           /\ last_ret' = [kind |-> IF Ping(c) THEN "ok" ELSE "bad", conn |-> c]
           /\ IF chk.ok
              THEN /\ conn_state' = [conn_state EXCEPT ![c] = "idle"]
                   /\ UNCHANGED <<connections, broken, born>>
              ELSE /\ conn_state' = [conn_state EXCEPT ![c] = "gone"]
                   /\ broken' = [broken EXCEPT ![c] = FALSE]
                   /\ born' = [born EXCEPT ![c] = 0]
                   /\ connections' = connections - 1
    /\ in_use' = in_use - 1
    /\ pc' = [pc EXCEPT ![t] = "idle"]
    /\ guard' = [guard EXCEPT ![t] = 0]
    /\ hand_age' = [hand_age EXCEPT ![t] = 0]
    /\ UNCHANGED <<max_open, waits, waitq, timeout, max_lifetime, now,
                   connects, window, result, req_lifetime>>

\* FastPool::set_timeout
SetTimeout(d) ==
    /\ timeout # d
    /\ UNCHANGED besidePool
    /\ timeout' = d
    /\ UNCHANGED <<max_open, connections, in_use, waits, waitq, max_lifetime,
                   conn_state, conn_closed, broken, born, now, connects, pc, guard, window, result,
                   req_lifetime, hand_age, last_ret>>

\* FastPool::set_conn_max_lifetime
SetConnMaxLifetime(l) ==
    /\ req_lifetime # l
    /\ UNCHANGED besidePool
    /\ req_lifetime' = l
    /\ max_lifetime' = StoreMaxLifetime(max_lifetime, l)
    /\ UNCHANGED <<max_open, connections, in_use, waits, waitq, timeout, conn_state,
                   conn_closed, broken, born, now, connects, pc, guard, window, result, hand_age,
                   last_ret>>

\* a live connection breaks: its next ping fails
Break(c) ==
    /\ conn_state[c] \in {"idle", "held"}
    /\ UNCHANGED besidePool
    /\ ~broken[c]
    /\ broken' = [broken EXCEPT ![c] = TRUE]
    /\ UNCHANGED <<max_open, connections, in_use, waits, waitq, timeout, max_lifetime,
                   conn_state, conn_closed, born, now, connects, pc, guard, window, result,
                   req_lifetime, hand_age, last_ret>>

\* time passes
Tick ==
    /\ now < MaxNow
    /\ UNCHANGED besidePool
    /\ now' = now + 1
    /\ UNCHANGED <<max_open, connections, in_use, waits, waitq, timeout, max_lifetime,
                   conn_state, conn_closed, broken, born, connects, pc, guard, window, result,
                   req_lifetime, hand_age, last_ret>>

\* the pool under callers, timeouts, cancellation and failing connections
PoolNext ==
    \/ \E t \in Tasks : Get(t)
    \/ \E t \in Tasks : \E d \in Durations : GetTimeout(t, d)
    \/ \E t \in Tasks : ServeIdle(t)
    \/ \E t \in Tasks : ServeConnect(t)
    \/ \E t \in Tasks : TimeoutFires(t)
    \/ \E t \in Tasks : Cancel(t)
    \/ \E t \in Tasks : DropGuard(t)
    \/ \E d \in OptDurations : SetTimeout(d)
    \/ \E c \in ConnIds : Break(c)

\* the pool under callers and the passing of time
LifeNext ==
    \/ \E t \in Tasks : Get(t)
    \/ \E t \in Tasks : ServeIdle(t)
    \/ \E t \in Tasks : ServeConnect(t)
    \/ \E t \in Tasks : DropGuard(t)
    \/ \E l \in OptDurations : SetConnMaxLifetime(l)
    \/ Tick

\* ============================================================ connections

Keys == 1..MaxKey
NoStmt == [text |-> "none", key |-> 0]
Stmt(text, key) == [text |-> text, key |-> key]
\* the statements callers pass to exec
ExecStmts == {Stmt(x, k) : x \in {"insert", "delete"}, k \in Keys}
                 \cup {Stmt("invalid", 0), Stmt("missing_table", 0)}
\* the statements callers pass to get_rows and get_values
QueryStmts == {Stmt("select", 0), Stmt("invalid", 0)}

\* The database engine behind a connection (libsql for Turso, SQL Server for
\* MSSQL) runs one statement: the result and the session state after it.  A
\* failing statement changes nothing.  A nested begin is an error in libsql
\* and opens a nested level in SQL Server, whose rollback undoes every level.
Engine(k, st, r, d, sn) ==
    LET same == [res |-> "ok", rows |-> r, depth |-> d, snap |-> sn]
        fail == [res |-> ErrEngine, rows |-> r, depth |-> d, snap |-> sn]
    IN  CASE st.text = "insert" ->
               IF st.key \in r THEN fail ELSE [same EXCEPT !.rows = r \cup {st.key}]
          [] st.text = "delete" -> [same EXCEPT !.rows = r \ {st.key}]
          [] st.text \in {"select", "select 1", "SELECT 1"} -> same
          [] st.text \in {"begin", "begin tran"} ->
               IF d = 0 THEN [same EXCEPT !.depth = 1, !.snap = r]
               ELSE IF k = "mssql" /\ d < 2 THEN [same EXCEPT !.depth = d + 1]
               ELSE fail
          [] st.text = "commit" ->
               IF d = 0 THEN fail
               ELSE [same EXCEPT !.depth = d - 1, !.snap = IF d = 1 THEN {} ELSE sn]
          [] st.text = "rollback" ->
               IF d = 0 THEN fail
               ELSE [same EXCEPT !.rows = sn, !.depth = 0, !.snap = {}]
          [] OTHER -> fail

\* the engine ends a session: an open transaction is rolled back
EngineEnd(r, d, sn) ==
    [rows |-> IF d > 0 THEN sn ELSE r, depth |-> 0, snap |-> {}]

\* the statement texts the transaction methods send
\* MssqlConnection::begin / commit / rollback
MssqlBeginSql == "begin tran"
MssqlCommitSql == "commit"
MssqlRollbackSqlMutant == "commit"
MssqlRollbackSql == "rollback"
\* Connection::begin / commit / rollback, the trait's defaults TursoConnection keeps
DefaultBeginSql == "begin"
DefaultCommitSql == "commit"
DefaultRollbackSql == "rollback"
\* TursoConnection::ping, MssqlConnection::ping
TursoPingSql == "SELECT 1"
MssqlPingSql == "select 1"

\* MssqlConnection: self.inner.as_mut() leaves the client in place
MssqlInnerAfterCallMutant(i) == "None"
MssqlInnerAfterCall(i) == i
\* MssqlConnection::close: self.inner.take()
MssqlInnerAfterClose(i) == "None"

ConnInitOf(k) ==
    /\ kind = k
    /\ inner = "Some"
    /\ rows = {}
    /\ depth = 0
    /\ snapshot = {}
    /\ last_op = "none"
    /\ last_arg = NoStmt
    /\ last_res = "none"
    /\ closed_before = FALSE
    /\ close_returned = FALSE
    /\ tx_base = {}
    /\ pre_rows = {}

\* the history of one call
Record(op, st, res) ==
    /\ last_op' = op
    /\ last_arg' = st
    /\ last_res' = res
    /\ closed_before' = close_returned
    /\ pre_rows' = rows
    /\ tx_base' = IF op = "begin" /\ res = "ok" /\ depth = 0 THEN rows
                  ELSE IF op \in {"commit", "rollback", "close"} /\ depth' = 0 THEN {}
                  ELSE tx_base

\* a TursoConnection method that runs statement st: the engine's error is
\* returned as it is, the connection keeps no state of its own
TursoRun(op, st) ==
    LET e == Engine("turso", st, rows, depth, snapshot)
    IN  /\ rows' = e.rows /\ depth' = e.depth /\ snapshot' = e.snap
        /\ UNCHANGED <<kind, inner, close_returned>>
        /\ Record(op, st, e.res)

\* a MssqlConnection method that runs statement st: an error when inner is
\* None, else the engine's result
MssqlRun(op, st) ==
    IF inner = "None"
    THEN /\ UNCHANGED <<kind, inner, rows, depth, snapshot, close_returned>>
         /\ Record(op, st, ErrMssqlClosed)
    ELSE LET e == Engine("mssql", st, rows, depth, snapshot)
         IN  /\ rows' = e.rows /\ depth' = e.depth /\ snapshot' = e.snap
             /\ inner' = MssqlInnerAfterCall(inner)
             /\ UNCHANGED <<kind, close_returned>>
             /\ Record(op, st, e.res)

Run(op, tursoSt, mssqlSt) ==
    IF kind = "turso" THEN TursoRun(op, tursoSt) ELSE MssqlRun(op, mssqlSt)

\* Connection::exec
Exec(st) ==
    /\ UNCHANGED besideConn
    /\ Run("exec", st, st)

\* Connection::get_rows
GetRows(st) ==
    /\ UNCHANGED besideConn
    /\ Run("get_rows", st, st)

\* Connection::get_values, the trait's default: get_rows, then the rows as maps
GetValues(st) ==
    /\ UNCHANGED besideConn
    /\ Run("get_values", st, st)

\* Connection::ping
ConnPing ==
    /\ UNCHANGED besideConn
    /\ Run("ping", Stmt(TursoPingSql, 0), Stmt(MssqlPingSql, 0))

\* Connection::begin
Begin ==
    /\ UNCHANGED besideConn
    /\ Run("begin", Stmt(DefaultBeginSql, 0), Stmt(MssqlBeginSql, 0))

\* Connection::commit
Commit ==
    /\ UNCHANGED besideConn
    /\ Run("commit", Stmt(DefaultCommitSql, 0), Stmt(MssqlCommitSql, 0))

\* Connection::rollback
Rollback ==
    /\ UNCHANGED besideConn
    /\ Run("rollback", Stmt(DefaultRollbackSql, 0), Stmt(MssqlRollbackSql, 0))

\* TursoConnection::close: Ok(()) and nothing else
TursoClose ==
    /\ UNCHANGED besideConn
    /\ kind = "turso"
    /\ close_returned' = TRUE
    /\ UNCHANGED <<kind, inner, rows, depth, snapshot>>
    /\ Record("close", NoStmt, "ok")

\* MssqlConnection::close: takes inner; the client's close, if there was a
\* client, may fail, and the session ends either way
MssqlClose ==
    /\ UNCHANGED besideConn
    /\ kind = "mssql"
    /\ close_returned' = TRUE
    /\ inner' = MssqlInnerAfterClose(inner)
    /\ UNCHANGED kind
    /\ IF inner = "Some"
       THEN LET e == EngineEnd(rows, depth, snapshot)
            IN  /\ rows' = IF inner' = "None" THEN e.rows ELSE rows
                /\ depth' = IF inner' = "None" THEN e.depth ELSE depth
                /\ snapshot' = IF inner' = "None" THEN e.snap ELSE snapshot
                /\ \E res \in {"ok", ErrEngine} : Record("close", NoStmt, res)
       ELSE /\ UNCHANGED <<rows, depth, snapshot>>
            /\ Record("close", NoStmt, "ok")

ConnNext ==
    \/ \E st \in ExecStmts : Exec(st)
    \/ \E st \in QueryStmts : GetRows(st)
    \/ \E st \in QueryStmts : GetValues(st)
    \/ ConnPing
    \/ Begin
    \/ Commit
    \/ Rollback
    \/ TursoClose
    \/ MssqlClose

\* ==================================================================== rows

\* an absent slot (Option::None) of TursoRow.values
NoCell == [t |-> "None", v |-> ""]
\* libsql values a TursoRow is built from (payloads written as text)
TursoCells == {[t |-> "Null", v |-> ""], [t |-> "Integer", v |-> "1"],
               [t |-> "Text", v |-> "x"], [t |-> "Text", v |-> "null"],
               [t |-> "Text", v |-> "{k:v}"], [t |-> "Text", v |-> "{not valid json}"]}
\* tiberius ColumnData a MssqlRow is built from: None or Some(payload)
MssqlCells == {[t |-> "I64", v |-> "none"], [t |-> "I32", v |-> "1"],
               [t |-> "I64", v |-> "1"]}
CellsOf(k) == IF k = "turso" THEN TursoCells ELSE MssqlCells
\* the rows of at most MaxCols cells
RowsOf(k) == UNION {[1..n -> CellsOf(k)] : n \in 0..MaxCols}

\* the texts of the cells, cut into their first character, middle and last
\* character; {k:v} stands for the JSON object with key k and value v
TextParts(s) ==
    CASE s = "x" -> <<"x">>
      [] s = "null" -> <<"n", "ul", "l">>
      [] s = "{k:v}" -> <<"{", "k:v", "}">>
      [] s = "{not valid json}" -> <<"{", "not valid json", "}">>
\* is_json_string: "null", or {..}, or [..]
IsJsonString(s) ==
    LET p == TextParts(s)
    IN  \/ s = "null"
        \/ (Head(p) = "{" /\ p[Len(p)] = "}")
        \/ (Head(p) = "[" /\ p[Len(p)] = "]")
\* serde_json::from_str::<Value>: the decoded value, or an error
SerdeFromStr(s) ==
    CASE s = "null" -> [ok |-> TRUE, value |-> [t |-> "Null", v |-> ""]]
      [] s = "{k:v}" -> [ok |-> TRUE, value |-> [t |-> "Map", v |-> "k:v"]]
      [] OTHER -> [ok |-> FALSE, value |-> NoCell]

\* turso_value_to_rbs: Null, Integer -> I64, Text -> the decoded JSON when
\* the text is JSON-shaped and parses, else String; the function of value.rs
\* takes the value alone, the flag the row passes has no part in it
TursoValueToRbs(tv, jd) ==
    CASE tv.t = "Null" -> [t |-> "Null", v |-> ""]
      [] tv.t = "Integer" -> [t |-> "I64", v |-> tv.v]
      [] tv.t = "Text" ->
            IF IsJsonString(tv.v) /\ SerdeFromStr(tv.v).ok
            THEN SerdeFromStr(tv.v).value
            ELSE [t |-> "String", v |-> tv.v]

\* Decode for Value (MSSQL): None -> Null, I32 -> I32, I64 -> I64
MssqlDecode(cd) ==
    IF cd.v = "none" THEN [t |-> "Null", v |-> ""] ELSE [t |-> cd.t, v |-> cd.v]

\* the results of Row::get
RowOk(val) == [kind |-> "ok", value |-> val, msg |-> <<>>]
RowErr(m) == [kind |-> "err", value |-> NoCell, msg |-> m]
RowPanic == [kind |-> "panic", value |-> NoCell, msg |-> <<>>]
RowNone == [kind |-> "none", value |-> NoCell, msg |-> <<>>]
\* format!("column index {} out of range (row has {} columns)", i, len)
ErrOutOfRange(i, n) ==
    RowErr(<<"column index ", i, " out of range (row has ", n, " columns)">>)
\* format!("column index {} already consumed", i)
ErrConsumed(i) == RowErr(<<"column index ", i, " already consumed">>)

\* TursoRow::get, the bounds test: i >= self.values.len()
TursoOutOfRange(i, vals) == i >= Len(vals)

\* TursoRow::get, self.values[i].take(): slot i becomes None, the others stay
TursoTakeKeeps(vals, i) == vals
TursoTakeRemoves(vals, i) ==
    [j \in 1..(Len(vals) - 1) |-> IF j < i + 1 THEN vals[j] ELSE vals[j + 1]]
TursoTake(vals, i) == [vals EXCEPT ![i + 1] = NoCell]

RowInitOf(k) ==
    /\ row_kind = k
    /\ row_orig \in RowsOf(k)
    /\ row_values = row_orig
    /\ row_json_detect \in (IF k = "turso" THEN BOOLEAN ELSE {FALSE})
    /\ row_idx = NoneD
    /\ row_seen = {}
    /\ row_res = RowNone

\* the history of one get
RowRecord(i) ==
    /\ row_idx' = i
    /\ row_seen' = IF i < Len(row_orig) THEN row_seen \cup {i} ELSE row_seen

\* TursoRow::get(i)
TursoRowGet(i) ==
    /\ row_kind = "turso"
    /\ RowRecord(i)
    /\ UNCHANGED <<row_kind, row_json_detect, row_orig>>
    /\ UNCHANGED besideRow
    /\ IF TursoOutOfRange(i, row_values)
       THEN /\ row_res' = ErrOutOfRange(i, Len(row_values))
            /\ UNCHANGED row_values
       ELSE /\ row_values' = TursoTake(row_values, i)
            /\ row_res' = IF row_values[i + 1] # NoCell
                          THEN RowOk(TursoValueToRbs(row_values[i + 1], row_json_detect))
                          ELSE ErrConsumed(i)

\* MssqlRow::get(i): Value::decode(&self.datas[i]); the index panics out of
\* bounds, and the cell stays in place
MssqlRowGet(i) ==
    /\ row_kind = "mssql"
    /\ RowRecord(i)
    /\ UNCHANGED <<row_kind, row_json_detect, row_orig, row_values>>
    /\ UNCHANGED besideRow
    /\ row_res' = IF i >= Len(row_values) THEN RowPanic
                  ELSE RowOk(MssqlDecode(row_values[i + 1]))

\* a caller reads the cells of one row, in any order, any index
RowNext ==
    \/ \E i \in 0..MaxCols : TursoRowGet(i)
    \/ \E i \in 0..MaxCols : MssqlRowGet(i)

\* ==================================================== placeholder exchange

\* the bytes of sql: `?`, backslash, an ASCII byte, and the two bytes of a
\* multi-byte UTF-8 character
SqlBytes == {"?", "\\", "a", "m1", "m2"}
\* &str is valid UTF-8: a lead byte is followed by its continuation byte
ValidUtf8(q) ==
    \A i \in 1..Len(q) :
        /\ q[i] = "m1" => (i < Len(q) /\ q[i + 1] = "m2")
        /\ q[i] = "m2" => (i > 1 /\ q[i - 1] = "m1")
Sqls == {q \in UNION {[1..n -> SqlBytes] : n \in 0..MaxSqlLen} : ValidUtf8(q)}
\* the prefixes: "$" (Postgres), "@P" (MssqlDriver::exchange), and the empty one
Prefixes == {<<"$">>, <<"@", "P">>, <<>>}
\* the start numbers: 9 makes the indices cross to two digits
StartNums == {0, 1, 9}

DigitChars == <<"0", "1", "2", "3", "4", "5", "6", "7", "8", "9">>
\* itoa::Buffer::new().format(n): the decimal form of n
RECURSIVE Decimal(_)
Decimal(n) ==
    IF n < 10 THEN <<DigitChars[n + 1]>>
    ELSE Decimal(n \div 10) \o <<DigitChars[(n % 10) + 1]>>

\* bytes[i] == b'\\' && i + 1 < bytes.len() && bytes[i + 1] == b'?'
IsEscapeNever(q, i) == FALSE
IsEscape(q, i) == q[i] = "\\" /\ i + 1 <= Len(q) /\ q[i + 1] = "?"

\* result.push('?') for an escape
EscapeEmitKeepsBackslash == <<"\\", "?">>
EscapeEmit == <<"?">>

\* if start < i { result.push_str(&sql[start..i]) }: the batch copy
CopyBatchSkipsFirst(q, start, i) == SubSeq(q, start + 1, i - 1)
CopyBatch(q, start, i) == SubSeq(q, start, i - 1)

\* placeholder_idx += 1
NextIdxStays(idx) == idx
NextIdx(idx) == idx + 1

\* the while loop of impl_exchange and the copy of the remaining bytes, with
\* 1-based positions: the output and the final placeholder_idx
RECURSIVE ExchangeLoop(_, _, _, _, _, _)
ExchangeLoop(p, q, i, start, idx, out) ==
    IF i > Len(q)
    THEN [out |-> out \o CopyBatch(q, start, Len(q) + 1), idx |-> idx]
    ELSE IF IsEscape(q, i)
    THEN ExchangeLoop(p, q, i + 2, i + 2, idx,
                      (out \o CopyBatch(q, start, i)) \o EscapeEmit)
    ELSE IF q[i] = "?"
    THEN ExchangeLoop(p, q, i + 1, i + 1, NextIdx(idx),
                      ((out \o CopyBatch(q, start, i)) \o p) \o Decimal(idx))
    ELSE ExchangeLoop(p, q, i + 1, start, idx, out)

\* impl_exchange(start_str, start_num, sql)
ImplExchange(p, n, q) == ExchangeLoop(p, q, 1, 1, n, <<>>)

ExInitOf(P, N, Q) ==
    /\ ex_p \in P
    /\ ex_n \in N
    /\ ex_sql \in Q
    /\ ex_pc = "start"
    /\ ex_out = <<>>
    /\ ex_subs = 0
    /\ ex_out2 = <<>>
    /\ ex_outc = <<>>
    /\ ex_cdone = FALSE

\* a driver calls impl_exchange on the sql
Exchange ==
    /\ ex_pc = "start"
    /\ LET r == ImplExchange(ex_p, ex_n, ex_sql)
       IN  /\ ex_out' = r.out
           /\ ex_subs' = r.idx - ex_n
    /\ ex_pc' = "once"
    /\ UNCHANGED <<ex_p, ex_n, ex_sql, ex_out2, ex_outc, ex_cdone>>
    /\ UNCHANGED besideEx

\* impl_exchange is called again, on its own output
ExchangeAgain ==
    /\ ex_pc = "once"
    /\ ex_out2' = ImplExchange(ex_p, ex_n, ex_out).out
    /\ ex_pc' = "twice"
    /\ UNCHANGED <<ex_p, ex_n, ex_sql, ex_out, ex_subs, ex_outc, ex_cdone>>
    /\ UNCHANGED besideEx

\* sql.chars(): the bytes grouped into characters, a lead byte with its
\* continuation byte
RECURSIVE Chars(_)
Chars(q) ==
    IF q = <<>> THEN <<>>
    ELSE IF q[1] = "m1" THEN <<SubSeq(q, 1, 2)>> \o Chars(SubSeq(q, 3, Len(q)))
    ELSE <<SubSeq(q, 1, 1)>> \o Chars(Tail(q))
\* chars.peek() == Some(&'?')
PeekIsQuestionNever(cs) == FALSE
PeekIsQuestion(cs) == cs # <<>> /\ Head(cs) = <<"?">>
\* the while-let loop of util::impl_exchange over the remaining characters
RECURSIVE CharLoop(_, _, _, _)
CharLoop(p, cs, idx, out) ==
    IF cs = <<>> THEN out
    ELSE LET c == Head(cs)
         IN  IF c = <<"\\">> /\ PeekIsQuestion(Tail(cs))
             THEN CharLoop(p, Tail(Tail(cs)), idx, out \o <<"?">>)
             ELSE IF c = <<"?">>
             THEN CharLoop(p, Tail(cs), idx + 1, (out \o p) \o Decimal(idx))
             ELSE CharLoop(p, Tail(cs), idx, out \o c)
\* util::impl_exchange(start_str, start_num, sql), the char iteration
ImplExchangeChars(p, n, q) == CharLoop(p, Chars(q), n, <<>>)

\* the char iteration is called on the same arguments
ExchangeChars ==
    /\ ~ex_cdone
    /\ ex_outc' = ImplExchangeChars(ex_p, ex_n, ex_sql)
    /\ ex_cdone' = TRUE
    /\ UNCHANGED <<ex_p, ex_n, ex_sql, ex_pc, ex_out, ex_subs, ex_out2>>
    /\ UNCHANGED besideEx

ExNext ==
    \/ Exchange
    \/ ExchangeAgain
    \/ ExchangeChars

\* ================================================== TursoConnectOptions

\* strings are sequences of tokens; ":memory:"
MemoryUrl == <<":memory:">>
\* Option<String>
NoString == [some |-> FALSE, v |-> <<>>]
SomeString(x) == [some |-> TRUE, v |-> x]

\* TursoConnectOptions::new
OptNew ==
    [url |-> MemoryUrl, auth_token |-> NoString, in_memory |-> TRUE,
     json_detect |-> FALSE]

\* the URIs callers pass: a scheme part, a path part and a query part
Schemes == {<<"turso://">>, <<"turso:">>, <<>>}
Paths == {<<>>, MemoryUrl, <<"/tmp/test.db">>}
Params == {[k |-> "url", v |-> ":memory:"], [k |-> "url", v |-> "libsql://host"],
           [k |-> "token", v |-> "secret"], [k |-> "json_detect", v |-> "true"],
           [k |-> "json_detect", v |-> "false"], [k |-> "bogus", v |-> "value"]}
NoQuery == [present |-> FALSE, params |-> <<>>]
Queries ==
    {NoQuery} \cup
    {[present |-> TRUE, params |-> ps] :
        ps \in {<<>>} \cup {<<a>> : a \in Params} \cup {<<a, b>> : a, b \in Params}}
\* key=value pairs joined by `&`
RECURSIVE JoinParams(_)
JoinParams(ps) ==
    IF ps = <<>> THEN <<>>
    ELSE <<ps[1].k, "=", ps[1].v>> \o
         (IF Len(ps) > 1 THEN <<"&">> \o JoinParams(Tail(ps)) ELSE <<>>)
\* the text of a URI
UriOf(sch, path, q) ==
    (sch \o path) \o (IF q.present THEN <<"?">> \o JoinParams(q.params) ELSE <<>>)

\* str::starts_with
StartsWith(u, tok) == u # <<>> /\ Head(u) = tok
\* uri.starts_with("turso://")
HasTursoScheme(u) == StartsWith(u, "turso://")
\* uri.starts_with("turso:")
HasTursoColonNever(u) == FALSE
HasTursoColon(u) == StartsWith(u, "turso:") \/ StartsWith(u, "turso://")
\* rest == ":memory:" || rest.is_empty()
RestIsMemoryNotEmpty(rest) == rest = MemoryUrl
RestIsMemory(rest) == rest = MemoryUrl \/ rest = <<>>

\* the first position of tok in u (0: none)
IndexOf(u, tok) ==
    IF \E i \in 1..Len(u) : u[i] = tok
    THEN CHOOSE i \in 1..Len(u) : u[i] = tok /\ \A j \in 1..(i - 1) : u[j] # tok
    ELSE 0
\* str::split
RECURSIVE SplitOn(_, _)
SplitOn(u, sep) ==
    LET i == IndexOf(u, sep)
    IN  IF i = 0 THEN <<u>>
        ELSE <<SubSeq(u, 1, i - 1)>> \o SplitOn(SubSeq(u, i + 1, Len(u)), sep)
\* url::form_urlencoded::parse: the non-empty `&` segments, each split at
\* its first `=`
PairOf(seg) ==
    LET i == IndexOf(seg, "=")
    IN  IF i = 0 THEN [k |-> seg, v |-> <<>>]
        ELSE [k |-> SubSeq(seg, 1, i - 1), v |-> SubSeq(seg, i + 1, Len(seg))]
FormPairs(params) ==
    LET segs == SelectSeq(SplitOn(params, "&"), LAMBDA g : g # <<>>)
    IN  [i \in 1..Len(segs) |-> PairOf(segs[i])]

\* the results: Ok, or an error text with the key it names
OptResOk == [text |-> "ok", key |-> <<>>]
NoErr == [text |-> "", key |-> <<>>]
ErrOptScheme ==
    [text |-> "turso configuration: invalid URI scheme turso:, expected turso://",
     key |-> <<>>]
ErrOptNoUrl ==
    [text |-> "turso configuration: no database URL or path provided", key |-> <<>>]
\* format!("turso configuration: unknown query parameter ..", key)
ErrOptUnknown(key) ==
    [text |-> "turso configuration: unknown query parameter", key |-> key]

\* from_str, the loop over the query parameters
RECURSIVE ParseParams(_, _)
ParseParams(pairs, acc) ==
    IF pairs = <<>> THEN acc
    ELSE LET kv == Head(pairs)
         IN  CASE kv.k = <<"url">> ->
                    ParseParams(Tail(pairs), [acc EXCEPT !.url = SomeString(kv.v)])
               [] kv.k = <<"token">> ->
                    ParseParams(Tail(pairs), [acc EXCEPT !.token = SomeString(kv.v)])
               [] kv.k = <<"json_detect">> ->
                    ParseParams(Tail(pairs),
                        [acc EXCEPT !.jd = IF kv.v \in {<<"true">>, <<"1">>}
                                           THEN "true" ELSE "false"])
               [] OTHER -> [acc EXCEPT !.err = ErrOptUnknown(kv.k)]
NoParams == [url |-> NoString, token |-> NoString, jd |-> "none", err |-> NoErr]

OptOk(o) == [res |-> OptResOk, opts |-> o]
OptErr(e) == [res |-> e, opts |-> OptNew]

\* TursoConnectOptions::from_str
FromStr(uri) ==
    IF ~HasTursoScheme(uri) /\ HasTursoColon(uri) THEN OptErr(ErrOptScheme)
    ELSE
    LET rest == IF HasTursoScheme(uri) THEN Tail(uri) ELSE uri
    IN  IF RestIsMemory(rest) THEN OptOk(OptNew)
        ELSE
        LET q == IndexOf(rest, "?")
            path_part == IF q = 0 THEN rest ELSE SubSeq(rest, 1, q - 1)
            parsed == IF q = 0 THEN NoParams
                      ELSE ParseParams(FormPairs(SubSeq(rest, q + 1, Len(rest))), NoParams)
        IN  IF parsed.err # NoErr THEN OptErr(parsed.err)
            ELSE IF ~parsed.url.some /\ path_part = <<>> THEN OptErr(ErrOptNoUrl)
            ELSE LET u == IF parsed.url.some THEN parsed.url.v ELSE path_part
                 IN  OptOk([url |-> u,
                            auth_token |-> parsed.token,
                            in_memory |-> (u = MemoryUrl),
                            json_detect |-> (parsed.jd = "true")])

\* set_uri: *self = from_str(uri)?, self is assigned only on Ok
SetUriKeepsOnErrorNot(old) == OptNew
SetUriKeepsOnError(old) == old

OptInit ==
    /\ opt = OptNew
    /\ opt_op = "new"
    /\ opt_scheme = <<>>
    /\ opt_path = <<>>
    /\ opt_query = NoQuery
    /\ opt_res = OptResOk
    /\ opt_db = "none"

\* ConnectOptions::set_uri on the URI made of the three parts
OptSetUri(sch, path, q) ==
    /\ LET r == FromStr(UriOf(sch, path, q))
       IN  /\ opt_res' = r.res
           /\ opt' = IF r.res = OptResOk THEN r.opts ELSE SetUriKeepsOnError(opt)
    /\ opt_op' = "set_uri"
    /\ opt_scheme' = sch
    /\ opt_path' = path
    /\ opt_query' = q
    /\ opt_db' = "none"
    /\ UNCHANGED besideOpt

\* a builder call: no URI, the result is the options
OptBuilt(op, o) ==
    /\ opt' = o
    /\ opt_op' = op
    /\ opt_scheme' = <<>>
    /\ opt_path' = <<>>
    /\ opt_query' = NoQuery
    /\ opt_res' = OptResOk
    /\ opt_db' = "none"

\* url(): u == ":memory:"
UrlIsMemoryKept(u) == opt.in_memory
UrlIsMemory(u) == u = MemoryUrl
\* TursoConnectOptions::url
OptUrl(u) ==
    /\ UNCHANGED besideOpt
    /\ OptBuilt("url", [opt EXCEPT !.in_memory = UrlIsMemory(u), !.url = u])

\* TursoConnectOptions::auth_token
OptAuthToken(t) ==
    /\ UNCHANGED besideOpt
    /\ OptBuilt("auth_token", [opt EXCEPT !.auth_token = SomeString(t)])

\* TursoConnectOptions::json_detect
OptJsonDetect(b) ==
    /\ UNCHANGED besideOpt
    /\ OptBuilt("json_detect", [opt EXCEPT !.json_detect = b])

\* the URL heads that start with libsql://, https:// or http://
RemoteHeads == {"libsql://host", "https://host", "http://host"}
\* TursoConnectOptions::is_remote
IsRemote(o) == o.url # <<>> /\ Head(o.url) \in RemoteHeads
\* str::trim: the text without its leading and trailing white space
RECURSIVE TokenTrim(_)
TokenTrimNot(t) == t
TokenTrim(t) ==
    IF t = <<>> THEN t
    ELSE IF Head(t) = " " THEN TokenTrim(Tail(t))
    ELSE IF t[Len(t)] = " " THEN TokenTrim(SubSeq(t, 1, Len(t) - 1))
    ELSE t
\* auth_token.as_deref().map(str::trim).filter(|t| !t.is_empty()).is_some()
HasAuthToken(o) == o.auth_token.some /\ TokenTrim(o.auth_token.v) # <<>>
ErrCfgEmptyUrl ==
    [text |-> "turso configuration error: Turso URL must not be empty", key |-> <<>>]
ErrCfgToken ==
    [text |-> "turso configuration error: auth_token is required and must not be empty",
     key |-> <<>>]
\* libsql's builder or Database::connect failed
ErrDbBuild == [text |-> "turso connection error", key |-> <<>>]
\* TursoConnectOptions::validate
Validate(o) ==
    IF o.url = <<>> THEN ErrCfgEmptyUrl
    ELSE IF IsRemote(o) /\ ~HasAuthToken(o) THEN ErrCfgToken
    ELSE OptResOk
\* which libsql::Builder connect_turso runs
BuilderOf(o) ==
    IF o.in_memory THEN "new_local_memory"
    ELSE IF IsRemote(o) THEN "new_remote"
    ELSE "new_local"
\* TursoConnectOptions::connect_turso; built: the builder and the connect
\* that follows it succeed
OptConnect(built) ==
    /\ opt_op' = "connect"
    /\ LET v == Validate(opt)
       IN  IF v # OptResOk
           THEN opt_res' = v /\ opt_db' = "none"
           ELSE /\ opt_db' = BuilderOf(opt)
                /\ opt_res' = IF built THEN OptResOk ELSE ErrDbBuild
    /\ opt_scheme' = <<>>
    /\ opt_path' = <<>>
    /\ opt_query' = NoQuery
    /\ UNCHANGED opt
    /\ UNCHANGED besideOpt

OptNext ==
    \/ \E sch \in Schemes : \E path \in Paths : \E q \in Queries : OptSetUri(sch, path, q)
    \/ \E u \in {MemoryUrl, <<"/tmp/test.db">>, <<"libsql://host">>} : OptUrl(u)
    \/ \E t \in {<<"secret">>} : OptAuthToken(t)
    \/ \E b \in BOOLEAN : OptJsonDetect(b)

\* ====================================================== exec of the adapter

\* the rowids of the statements: negative, small, and the 42 of the tests
RowIds == {-1, 1, 42}
NoExecStmt == [op |-> "none", id |-> 0]
ExecInserts == {[op |-> "insert", id |-> k] : k \in RowIds}
ExecDeletes == {[op |-> "delete", id |-> k] : k \in RowIds \cup {0}}
\* rbs values holding an integer n of 64 bits: the number is wraps * 2^64 + n
IntValue(tag, w, n) == [t |-> tag, wraps |-> w, n |-> n]
\* n as u64: a negative n wraps to 2^64 + n
AsU64(n) == IntValue("U64", IF n < 0 THEN 1 ELSE 0, n)
\* libsql Connection::execute and last_insert_rowid: INSERT with an explicit
\* rowid (refused when taken), DELETE of one rowid, DELETE of every row (id 0)
LibsqlExecute(stmt) ==
    CASE stmt.op = "insert" ->
            IF stmt.id \in tbl
            THEN [ok |-> FALSE, changes |-> 0, tbl |-> tbl, rowid |-> last_rowid]
            ELSE [ok |-> TRUE, changes |-> 1, tbl |-> tbl \cup {stmt.id},
                  rowid |-> stmt.id]
      [] stmt.op = "delete" ->
            LET gone == IF stmt.id = 0 THEN tbl ELSE tbl \cap {stmt.id}
            IN  [ok |-> TRUE, changes |-> Cardinality(gone), tbl |-> tbl \ gone,
                 rowid |-> last_rowid]
NoExecResult == [kind |-> "none", rows_affected |-> 0, last_insert_id |-> IntValue("Null", 0, 0)]
ExecError == [kind |-> "err", rows_affected |-> 0, last_insert_id |-> IntValue("Null", 0, 0)]
\* ExecResult { rows_affected, last_insert_id: Value::U64(last_id as u64) }
ExecResultOf(changes, last_id) ==
    [kind |-> "ok", rows_affected |-> changes, last_insert_id |-> AsU64(last_id)]

ExecInit ==
    /\ tbl = {}
    /\ last_rowid = 0
    /\ exec_stmt = NoExecStmt
    /\ exec_pre = {}
    /\ exec_res = NoExecResult

\* impl Connection for TursoConnection: exec
TursoExec(stmt) ==
    /\ LET r == LibsqlExecute(stmt)
       IN  /\ tbl' = r.tbl
           /\ last_rowid' = r.rowid
           /\ exec_res' = IF r.ok THEN ExecResultOf(r.changes, r.rowid) ELSE ExecError
    /\ exec_stmt' = stmt
    /\ exec_pre' = tbl
    /\ UNCHANGED besideExec

ExecNext == \E stmt \in ExecInserts \cup ExecDeletes : TursoExec(stmt)

\* ================================== deviation registry and release gate

MaxRecords == 2
\* ids as their prefix and the characters after it
DevIds == {<<"DEV-", "0", "0", "1">>, <<"DEV-", "0", "0", "4">>, <<"DEV-", "1">>}
Statuses == {"Approved", "Proposed", "Rejected", "NotADeviation"}
Deviation(id, title, scenarios, status, summary, impact, rationale) ==
    [id |-> id, title |-> title, linked_scenarios |-> scenarios, status |-> status,
     summary |-> summary, user_impact |-> impact, rationale |-> rationale]
\* the records a registry is made of: complete ones of every id, status and
\* scenario, and ones with one thing missing
Deviations ==
    {Deviation(id, "title", <<sc>>, st, "summary", "impact", "rationale") :
        id \in DevIds, sc \in {"PAR-006", "PAR-010"}, st \in Statuses}
    \cup {Deviation(<<"DEV-", "0", "0", "1">>, "title", <<>>, st, "summary", "impact",
                    "rationale") : st \in {"Approved", "NotADeviation"}}
    \cup {Deviation(<<"X-", "0", "0", "1">>, "title", <<"PAR-006">>, "Approved",
                    "summary", "impact", "rationale"),
          Deviation(<<"DEV-", "0", "0", "1">>, "", <<"PAR-006">>, "Approved",
                    "summary", "impact", "rationale"),
          Deviation(<<"DEV-", "0", "0", "1">>, "title", <<"PAR-006">>, "Approved",
                    "", "impact", "rationale"),
          Deviation(<<"DEV-", "0", "0", "1">>, "title", <<"PAR-006">>, "Approved",
                    "summary", "", "rationale"),
          Deviation(<<"DEV-", "0", "0", "1">>, "title", <<"PAR-006">>, "Approved",
                    "summary", "impact", "")}

\* the entries of ValidationResult.errors and .warnings: what is wrong, the
\* record, and for a scenario claimed twice the scenario and its first owner
RegError(what, id) == [what |-> what, id |-> id, scenario |-> "", owner |-> <<>>]
ClaimedError(sc, owner, id) ==
    [what |-> "Scenario is claimed by both", id |-> id, scenario |-> sc, owner |-> owner]
NoRegError == RegError("", <<>>)

\* validate_registry, the loop over dev.linked_scenarios
RECURSIVE ScenarioLoop(_, _, _)
ScenarioLoop(dev, scs, acc) ==
    IF scs = <<>> THEN acc
    ELSE LET sc == Head(scs)
             owned == {o \in acc.owners : o.scenario = sc}
         IN  ScenarioLoop(dev, Tail(scs),
                IF owned # {}
                THEN [acc EXCEPT !.errors =
                        Append(@, ClaimedError(sc, (CHOOSE o \in owned : TRUE).owner, dev.id))]
                ELSE [acc EXCEPT !.owners = @ \cup {[scenario |-> sc, owner |-> dev.id]}])
\* if cond { errors.push(e) }
PushIf(cond, errs, e) == IF cond THEN Append(errs, e) ELSE errs
\* the ID format test: !dev.id.starts_with("DEV-")
BadIdFormat(id) == ~StartsWith(id, "DEV-")
\* the linked-scenarios test: dev.linked_scenarios.is_empty()
NoScenarios(dev) == dev.linked_scenarios = <<>>
\* validate_registry, the body of the loop over REGISTRY for one record
ValidateOne(dev, acc) ==
    LET a1 == [acc EXCEPT
                 !.errors = PushIf(dev.id \in acc.seen, @,
                                   RegError("Duplicate deviation ID", dev.id)),
                 !.seen = @ \cup {dev.id}]
        a2 == [a1 EXCEPT
                 !.errors = PushIf(BadIdFormat(dev.id), @,
                                   RegError("ID must start with DEV-", dev.id))]
        a3 == [a2 EXCEPT
                 !.errors = PushIf(NoScenarios(dev), @,
                                   RegError("must have at least one linked scenario", dev.id))]
        a4 == ScenarioLoop(dev, dev.linked_scenarios, a3)
        a5 == [a4 EXCEPT
                 !.errors =
                    PushIf(dev.rationale = "",
                      PushIf(dev.user_impact = "",
                        PushIf(dev.summary = "",
                          PushIf(dev.title = "", @,
                                 RegError("title must not be empty", dev.id)),
                          RegError("summary must not be empty", dev.id)),
                        RegError("user_impact must not be empty", dev.id)),
                      RegError("rationale must not be empty", dev.id))]
    IN  CASE dev.status = "Approved" -> [a5 EXCEPT !.approved_count = @ + 1]
          [] dev.status = "Proposed" ->
                [a5 EXCEPT !.proposed_count = @ + 1,
                           !.warnings = Append(@, RegError("PROPOSED", dev.id))]
          [] dev.status = "NotADeviation" -> [a5 EXCEPT !.not_deviation_count = @ + 1]
          [] dev.status = "Rejected" ->
                [a5 EXCEPT !.rejected_count = @ + 1,
                           !.errors = Append(@, RegError("REJECTED", dev.id))]
RECURSIVE ValidateLoop(_, _)
ValidateLoop(reg, acc) ==
    IF reg = <<>> THEN acc ELSE ValidateLoop(Tail(reg), ValidateOne(Head(reg), acc))
ValidateStart ==
    [errors |-> <<>>, warnings |-> <<>>, seen |-> {}, owners |-> {},
     approved_count |-> 0, proposed_count |-> 0, not_deviation_count |-> 0,
     rejected_count |-> 0]
\* validate_registry
ValidateRegistry(reg) ==
    LET a == ValidateLoop(reg, ValidateStart)
    IN  [run |-> TRUE, errors |-> a.errors, warnings |-> a.warnings,
         approved_count |-> a.approved_count, proposed_count |-> a.proposed_count,
         not_deviation_count |-> a.not_deviation_count,
         rejected_count |-> a.rejected_count]
\* ValidationResult::is_valid
IsValid(v) == v.errors = <<>>

\* the records of a status, in registry order: REGISTRY.iter().filter(..)
RejectedOf(reg) == SelectSeq(reg, LAMBDA d : d.status = "Rejected")
ProposedOfNone(reg) == <<>>
ProposedOf(reg) == SelectSeq(reg, LAMBDA d : d.status = "Proposed")
ApprovedOf(reg) == SelectSeq(reg, LAMBDA d : d.status = "Approved")
\* the entries of GateResult.failures: the gate that failed, the record it
\* names, and for gate 1 the validator's error
GateFailure(gate, id, err) == [gate |-> gate, id |-> id, err |-> err]
\* evaluate
Evaluate(reg) ==
    LET validation == ValidateRegistry(reg)
        g1 == IF ~IsValid(validation)
              THEN [i \in 1..Len(validation.errors) |->
                        GateFailure("Registry error", validation.errors[i].id,
                                    validation.errors[i])]
              ELSE <<>>
        rej == RejectedOf(reg)
        g2 == [i \in 1..Len(rej) |-> GateFailure("REJECTED", rej[i].id, NoRegError)]
        pro == ProposedOf(reg)
        g3 == [i \in 1..Len(pro) |-> GateFailure("PROPOSED", pro[i].id, NoRegError)]
        app == SelectSeq(ApprovedOf(reg), LAMBDA d : d.linked_scenarios = <<>>)
        g4 == [i \in 1..Len(app) |->
                  GateFailure("APPROVED deviation has no linked scenarios", app[i].id,
                              NoRegError)]
        failures == ((g1 \o g2) \o g3) \o g4
    IN  [run |-> TRUE, passed |-> (failures = <<>>), failures |-> failures,
         warnings |-> validation.warnings]

NotValidated ==
    [run |-> FALSE, errors |-> <<>>, warnings |-> <<>>, approved_count |-> 0,
     proposed_count |-> 0, not_deviation_count |-> 0, rejected_count |-> 0]
NotEvaluated == [run |-> FALSE, passed |-> FALSE, failures |-> <<>>, warnings |-> <<>>]
NoEdit == [op |-> "none", id |-> <<>>, was |-> "", passed_before |-> FALSE]

GateInit ==
    /\ registry = <<>>
    /\ val_res = NotValidated
    /\ gate_res = NotEvaluated
    /\ reg_edit = NoEdit

\* a change of the table: the results of the validator and of the gate are
\* those of no table any more
RegEdited(op, dev) ==
    /\ val_res' = NotValidated
    /\ gate_res' = NotEvaluated
    /\ reg_edit' = [op |-> op, id |-> dev.id, was |-> dev.status,
                    passed_before |-> gate_res.run /\ gate_res.passed]
\* a record is added to REGISTRY
RegAdd(dev) ==
    /\ Len(registry) < MaxRecords
    /\ registry' = Append(registry, dev)
    /\ RegEdited("add", dev)
    /\ UNCHANGED besideGate
\* a record is removed from REGISTRY
RegRemove(i) ==
    /\ i \in 1..Len(registry)
    /\ registry' = SubSeq(registry, 1, i - 1) \o SubSeq(registry, i + 1, Len(registry))
    /\ RegEdited("remove", registry[i])
    /\ UNCHANGED besideGate
\* the status of a record becomes Approved
RegApprove(i) ==
    /\ i \in 1..Len(registry)
    /\ registry[i].status # "Approved"
    /\ registry' = [registry EXCEPT ![i].status = "Approved"]
    /\ RegEdited("approve", registry[i])
    /\ UNCHANGED besideGate
\* the tests run: validator::validate_registry() and release_gate::evaluate()
RunGate ==
    /\ ~gate_res.run
    /\ val_res' = ValidateRegistry(registry)
    /\ gate_res' = Evaluate(registry)
    /\ UNCHANGED <<registry, reg_edit>>
    /\ UNCHANGED besideGate

GateNext ==
    \/ \E dev \in Deviations : RegAdd(dev)
    \/ \E i \in 1..MaxRecords : RegRemove(i)
    \/ \E i \in 1..MaxRecords : RegApprove(i)
    \/ RunGate

\* ================================================ query of the adapter

MaxResultRows == 2
\* the columns of the result set (positions 1 and 2 stand for i = 0 and 1)
ResultColumns == {1, 2}
\* libsql::ValueType, and the storage classes of libsql::Value
ValueTypes == {"Null", "Integer", "Text"}
\* Rows::column_type(i): Ok(ValueType) or Err
ColumnTypeAnswers == ValueTypes \cup {"Err"}
\* TursoDataType::name
TypeName(t) ==
    CASE t = "Null" -> "NULL"
      [] t = "Integer" -> "INTEGER"
      [] t = "Real" -> "REAL"
      [] t = "Text" -> "TEXT"
      [] t = "Blob" -> "BLOB"
\* rows_result.column_type(i).map(TursoDataType::from).unwrap_or(Null)
ColumnTypeInfo(answer) == IF answer = "Err" THEN "Null" ELSE answer
\* the data_type of a cell: the type of the value, the column's for a Null
CellDataType(v, col) == IF v = "Null" THEN col ELSE v
\* execute_query: the column descriptors, built once, and one TursoRow per
\* row of the result, each holding the same descriptors
BuildRows(reported, data) ==
    LET columns == [i \in ResultColumns |-> ColumnTypeInfo(reported[i])]
    IN  [r \in 1..Len(data) |->
            [values |-> [i \in ResultColumns |->
                            [inner |-> data[r][i],
                             data_type |-> CellDataType(data[r][i], columns[i])]],
             columns |-> columns]]
\* TursoRow::meta_data().column_type(i) of a row
ColumnType(row, i) == TypeName(row.columns[i])

\* the results libsql may hold for a statement: what it reports of each
\* column, and the rows
ResultData == UNION {[1..n -> [ResultColumns -> ValueTypes]] : n \in 0..MaxResultRows}
QueryInitOf(Reported, Data) ==
    /\ q_reported \in Reported
    /\ q_data \in Data
    /\ q_rows = <<>>
    /\ q_pc = "start"
QueryInit == QueryInitOf({[i \in ResultColumns |-> "Err"]}, {<<>>})

\* TursoConnection::execute_query on the statement whose result libsql
\* describes by q_reported and returns as q_data
ExecuteQuery ==
    /\ q_pc = "start"
    /\ q_rows' = BuildRows(q_reported, q_data)
    /\ q_pc' = "done"
    /\ UNCHANGED <<q_reported, q_data>>
    /\ UNCHANGED besideQuery

QueryNext == ExecuteQuery

\* ============================================ PgConnection::establish

MaxPgMessages == 4
\* the methods an Authentication message decodes to
AuthMethods == {"Ok", "CleartextPassword", "Md5Password", "Sasl", "SaslContinue",
                "SaslFinal"}
\* the messages stream.recv() hands to establish
PgMessage(format, body) == [format |-> format, body |-> body]
PgMessages ==
    {PgMessage("Authentication", m) : m \in AuthMethods}
    \cup {PgMessage("BackendKeyData", "7"), PgMessage("ReadyForQuery", "I"),
          PgMessage("DataRow", ""), PgMessage("CommandComplete", "")}
ErrUnsupportedAuth == "protocol error: unsupported authentication method"
ErrUnexpectedMessage == "protocol error: establish: unexpected message"
\* a `?` of the loop failed: recv, decode, send or sasl::authenticate
ErrPgStream == "error"
\* establish, the match on message.format and on the decoded method
EstablishArmLenient(msg) == IF msg.format = "ReadyForQuery" THEN "break" ELSE "continue"
EstablishArm(msg) ==
    CASE msg.format = "Authentication" ->
            (CASE msg.body = "Ok" -> "continue"
               [] msg.body = "CleartextPassword" -> "cleartext"
               [] msg.body = "Md5Password" -> "md5"
               [] msg.body = "Sasl" -> "sasl"
               [] OTHER -> "unsupported")
      [] msg.format = "BackendKeyData" -> "key"
      [] msg.format = "ReadyForQuery" -> "break"
      [] OTHER -> "unexpected"

PgInit ==
    /\ pg_pc = "startup"
    /\ pg_msgs = <<>>
    /\ pg_key = "0"
    /\ pg_sent = <<>>
    /\ pg_res = ""

\* how an iteration ends: establish goes on, returns the connection, or
\* returns the error
PgGoesOn == pg_pc' = "startup" /\ pg_res' = ""
PgReturns == pg_pc' = "ready" /\ pg_res' = ""
PgFails(e) == pg_pc' = "failed" /\ pg_res' = e

\* one iteration of the loop of establish: recv returns msg; ok: the
\* fallible calls of the arm succeed
EstablishStep(msg, ok) ==
    /\ pg_pc = "startup"
    /\ Len(pg_msgs) < MaxPgMessages
    /\ pg_msgs' = Append(pg_msgs, msg)
    /\ LET arm == EstablishArm(msg)
       IN  CASE arm = "unsupported" ->
                    PgFails(ErrUnsupportedAuth) /\ UNCHANGED <<pg_key, pg_sent>>
             [] arm = "unexpected" ->
                    PgFails(ErrUnexpectedMessage) /\ UNCHANGED <<pg_key, pg_sent>>
             [] ~ok /\ arm \notin {"unsupported", "unexpected"} ->
                    PgFails(ErrPgStream) /\ UNCHANGED <<pg_key, pg_sent>>
             [] ok /\ arm = "continue" -> PgGoesOn /\ UNCHANGED <<pg_key, pg_sent>>
             [] ok /\ arm \in {"cleartext", "md5", "sasl"} ->
                    PgGoesOn /\ pg_sent' = Append(pg_sent, arm) /\ UNCHANGED pg_key
             [] ok /\ arm = "key" ->
                    PgGoesOn /\ pg_key' = msg.body /\ UNCHANGED pg_sent
             [] ok /\ arm = "break" -> PgReturns /\ UNCHANGED <<pg_key, pg_sent>>
    /\ UNCHANGED besidePg
\* stream.recv() itself fails: the connection is lost, or the server refuses
EstablishRecvFails ==
    /\ pg_pc = "startup"
    /\ PgFails(ErrPgStream)
    /\ UNCHANGED <<pg_msgs, pg_key, pg_sent>>
    /\ UNCHANGED besidePg

PgNext ==
    \/ \E msg \in PgMessages : \E ok \in BOOLEAN : EstablishStep(msg, ok)
    \/ EstablishRecvFails

\* ===================================== MySQL binary format of a Time

\* fastdate::Time { nano, sec, minute, hour }
TimeOf(h, m, s, n) == [hour |-> h, minute |-> m, sec |-> s, nano |-> n]
\* times of day: midnight, small and last values of each field; nano 500 is
\* below a microsecond, 300000 is 300 microseconds (two bytes)
Times == {TimeOf(h, m, s, n) : h \in {0, 1, 23}, m \in {0, 2, 59}, s \in {0, 3, 59},
                               n \in {0, 500, 1000, 300000}}
\* time_encoded_len
TimeEncodedLen(t) == IF t.nano = 0 THEN 8 ELSE 12
\* u32::to_le_bytes
U32LeBytes(n) == <<n % 256, (n \div 256) % 256, (n \div 65536) % 256, (n \div 16777216) % 256>>
\* encode_time
EncodeTime(t, include_micros) ==
    <<t.hour, t.minute, t.sec>> \o
    (IF include_micros THEN U32LeBytes(t.nano \div 1000) ELSE <<>>)
\* Encode for fastdate::Time: length, sign, four day bytes, the time
EncodeOfTime(t) ==
    LET len == TimeEncodedLen(t)
    IN  (<<len, 0>> \o <<0, 0, 0, 0>>) \o EncodeTime(t, len > 8)
\* Buf::get_uint_le(nbytes) over all the bytes left
RECURSIVE GetUintLe(_)
GetUintLe(bytes) == IF bytes = <<>> THEN 0 ELSE Head(bytes) + 256 * GetUintLe(Tail(bytes))
\* decode_time
DecodeTime(buf) ==
    LET rest == SubSeq(buf, 4, Len(buf))
        micros == IF rest # <<>> THEN GetUintLe(rest) ELSE 0
    IN  TimeOf(buf[1], buf[2], buf[3], micros * 1000)
\* Decode for fastdate::Time, binary format: &buf[5..] is the slice from the
\* sixth byte on
DecodeOfTime(buf) ==
    IF buf[1] > 4 THEN DecodeTime(SubSeq(buf, 6, Len(buf))) ELSE TimeOf(0, 0, 0, 0)

TimeInitOf(T) ==
    /\ t_in \in T
    /\ t_buf = <<>>
    /\ t_out = TimeOf(0, 0, 0, 0)
    /\ t_pc = "start"
TimeInit == TimeInitOf({TimeOf(0, 0, 0, 0)})

\* Encode::encode(t_in, &mut buf)
TimeEncode ==
    /\ t_pc = "start"
    /\ t_buf' = EncodeOfTime(t_in)
    /\ t_pc' = "encoded"
    /\ UNCHANGED <<t_in, t_out>>
    /\ UNCHANGED besideTime
\* Decode::decode of a binary value holding the bytes
TimeDecode ==
    /\ t_pc = "encoded"
    /\ t_out' = DecodeOfTime(t_buf)
    /\ t_pc' = "decoded"
    /\ UNCHANGED <<t_in, t_buf>>
    /\ UNCHANGED besideTime

TimeNext == TimeEncode \/ TimeDecode

\* what is left alone when another part is looked at
LateIdle == ExecInit /\ GateInit /\ QueryInit /\ PgInit /\ TimeInit

\* the options up to a connect: urls of every kind, tokens present, empty
\* and blank
ValidateUrls ==
    {MemoryUrl, <<"/tmp/test.db">>, <<>>} \cup {<<h>> : h \in RemoteHeads}
ValidateTokens == {<<"secret">>, <<>>, <<" ">>, <<" ", " ">>}
ValidateParams == {[k |-> "url", v |-> "libsql://host"], [k |-> "token", v |-> "secret"]}
ValidateQueries ==
    {NoQuery} \cup
    {[present |-> TRUE, params |-> ps] :
        ps \in {<<a>> : a \in ValidateParams} \cup
               {<<a, b>> : a, b \in ValidateParams}}
ValidateNext ==
    \/ \E sch \in {<<"turso://">>} : \E path \in {<<>>, <<"/tmp/test.db">>} :
        \E q \in ValidateQueries : OptSetUri(sch, path, q)
    \/ \E u \in ValidateUrls : OptUrl(u)
    \/ \E t \in ValidateTokens : OptAuthToken(t)
    \/ \E built \in BOOLEAN : OptConnect(built)

\* the pool, beside an untouched Turso connection and an untouched row
RowIdle == RowInitOf("turso") /\ row_orig = <<>> /\ row_json_detect = FALSE
ExIdle == ExInitOf({<<>>}, {0}, {<<>>})

Init == PoolInit /\ ConnInitOf("turso") /\ RowIdle /\ ExIdle /\ OptInit /\ LateIdle

SpecPool == Init /\ [][PoolNext]_vars
SpecLife == Init /\ [][LifeNext]_vars
\* one connection of either adapter, the pool left alone
InitConn ==
    /\ PoolInit /\ max_open = 1
    /\ \E k \in {"turso", "mssql"} : ConnInitOf(k)
    /\ RowIdle /\ ExIdle /\ OptInit /\ LateIdle
SpecConn == InitConn /\ [][ConnNext]_vars
\* one row of either adapter, the pool and the connection left alone
InitRow ==
    /\ PoolInit /\ max_open = 1
    /\ ConnInitOf("turso")
    /\ \E k \in {"turso", "mssql"} : RowInitOf(k)
    /\ ExIdle /\ OptInit /\ LateIdle
SpecRow == InitRow /\ [][RowNext]_vars
\* impl_exchange on every prefix, start number and sql of the bounds
InitEx ==
    /\ PoolInit /\ max_open = 1
    /\ ConnInitOf("turso")
    /\ RowIdle
    /\ ExInitOf(Prefixes, StartNums, Sqls)
    /\ OptInit /\ LateIdle
SpecEx == InitEx /\ [][ExNext]_vars
\* TursoConnectOptions under builder calls and set_uri
InitOpt ==
    /\ PoolInit /\ max_open = 1
    /\ ConnInitOf("turso")
    /\ RowIdle /\ ExIdle
    /\ OptInit /\ LateIdle
SpecOpt == InitOpt /\ [][OptNext]_vars
SpecValidate == InitOpt /\ [][ValidateNext]_vars
\* the first parts left alone
EarlyIdle ==
    /\ PoolInit /\ max_open = 1
    /\ ConnInitOf("turso")
    /\ RowIdle /\ ExIdle /\ OptInit
\* Connection::exec on one table
InitExec == EarlyIdle /\ ExecInit /\ GateInit /\ QueryInit /\ PgInit /\ TimeInit
SpecExec == InitExec /\ [][ExecNext]_vars
\* the registry under edits, validated and gated after each
InitGate == EarlyIdle /\ ExecInit /\ GateInit /\ QueryInit /\ PgInit /\ TimeInit
SpecGate == InitGate /\ [][GateNext]_vars
\* execute_query on every result of the bounds
InitQuery ==
    /\ EarlyIdle /\ ExecInit /\ GateInit
    /\ QueryInitOf([ResultColumns -> ColumnTypeAnswers], ResultData)
    /\ PgInit /\ TimeInit
SpecQuery == InitQuery /\ [][QueryNext]_vars
\* establish against a server sending any messages
InitPg ==
    /\ EarlyIdle /\ ExecInit /\ GateInit /\ QueryInit
    /\ PgInit /\ TimeInit
SpecPg == InitPg /\ [][PgNext]_vars
\* every time of the bounds encoded, then decoded
InitTime ==
    /\ EarlyIdle /\ ExecInit /\ GateInit /\ QueryInit /\ PgInit
    /\ TimeInitOf(Times)
SpecTime == InitTime /\ [][TimeNext]_vars

\* ============================================================ pool claims

Holding == {t \in Tasks : pc[t] = "holding"}
Waiting == {t \in Tasks : pc[t] = "waiting"}
\* a connection can be had right now: an idle one, or room to connect
Capacity == Idle # {} \/ connections < max_open
\* task t is handed a connection in this step
Served(t) == pc[t] = "waiting" /\ pc'[t] = "holding"
\* position of task t in the waiter queue (0: not queued)
Pos(t) == IF \E i \in 1..Len(waitq) : waitq[i] = t
          THEN CHOOSE i \in 1..Len(waitq) : waitq[i] = t
          ELSE 0

\* C1: the number of outstanding guards never exceeds max_open, and while
\* max_open guards are out no waiting get() can be handed a connection: the
\* waiter stays suspended until a guard is dropped or its timeout fires.
C1_GuardsBounded ==
    /\ Cardinality(Holding) <= max_open
    /\ in_use = Cardinality(Holding)
    /\ in_use >= max_open =>
          \A t \in Tasks : ~ENABLED ServeIdle(t) /\ ~ENABLED ServeConnect(t)
C1_Witness ==
    /\ in_use = max_open
    /\ Waiting # {}
    /\ result = "ok"

C6_ZeroTimeoutFailsFast ==
    [][/\ (result' = ErrTimeOut /\ result # ErrTimeOut) =>
            (~Capacity /\ UNCHANGED <<max_open, connections, in_use, waits, waitq,
                                      conn_state, conn_closed, connects, pc, guard,
                                      window, timeout>>)
       /\ \A t \in Tasks :
            (pc[t] = "idle" /\ pc'[t] = "waiting" /\ window'[t] = DefaultWindow) =>
                Capacity]_vars
C6_Witness ==
    /\ result = ErrTimeOut
    /\ in_use = max_open
    /\ waits = 0

\* C7 as stated: once set_conn_max_lifetime(Some(L)) was called, get() hands
\* out no connection older than L.
C7_NoOverAgeHandOut ==
    [][\A t \in Tasks :
          (req_lifetime # NoneD /\ Served(t)) => hand_age'[t] <= req_lifetime]_vars

\* C7 amended: FastPool does not support set_conn_max_lifetime: the call
\* leaves the pool as it was, its max-lifetime stays unset, and no connection
\* is discarded for its age at hand-out (a connection leaves the pool only
\* when its guard is dropped).
C7_LifetimeUnsupported ==
    [][/\ max_lifetime' = NoneD
       /\ req_lifetime' # req_lifetime =>
            UNCHANGED <<max_open, connections, in_use, waits, waitq, conn_state,
                        conn_closed, connects, pc, guard, max_lifetime>>
       /\ connections' < connections => in_use' < in_use]_vars
C7_Witness ==
    /\ req_lifetime # NoneD
    /\ \E t \in Tasks : pc[t] = "holding" /\ hand_age[t] > req_lifetime

\* ====================================================== connection claims

\* the last call failed
Failed == last_res \notin {"ok", "none"}

\* C8: every Connection method called after close() has returned fails
\* with an error.
C8_AllFailAfterClose ==
    closed_before => Failed

\* what the two connections do after close(): MssqlConnection fails every
\* call but a repeated close(), TursoConnection::close changes nothing
CloseBehaviour ==
    /\ (kind = "mssql" /\ close_returned) => inner = "None"
    /\ (kind = "mssql" /\ closed_before) =>
          IF last_op = "close" THEN last_res = "ok" ELSE last_res = ErrMssqlClosed
    /\ (kind = "turso" /\ last_op = "close") => (last_res = "ok" /\ rows = pre_rows)
    /\ (kind = "turso" /\ closed_before /\ last_op = "ping") => last_res = "ok"

\* the call of this step is one that is valid in the state it is made in
ValidCall ==
    \/ last_op' = "ping"
    \/ last_op' = "get_rows" /\ last_arg'.text = "select"
    \/ last_op' = "exec" /\ last_arg'.text = "delete"
    \/ last_op' = "exec" /\ last_arg'.text = "insert" /\ last_arg'.key \notin rows

\* C9: an exec or get_rows that fails on its SQL returns an error and
\* changes neither the data nor the connection, and the valid exec, get_rows
\* or ping that follows it succeeds.
C9_ErrorDoesNotPoison ==
    [][/\ (last_op' \in {"exec", "get_rows"} /\ last_res' = ErrEngine) =>
            UNCHANGED <<rows, depth, snapshot, inner>>
       /\ (last_op \in {"exec", "get_rows"} /\ last_res = ErrEngine /\ ValidCall) =>
            last_res' = "ok"]_vars
C9_Witness ==
    /\ last_op = "exec"
    /\ last_arg = Stmt("insert", 1)
    /\ last_res = ErrEngine
    /\ rows = {1}
    /\ pre_rows = {1}

\* C10: a rollback leaves exactly the rows that were visible at the begin of
\* the block (rows inserted inside are gone, rows committed before are
\* there), and a commit keeps every row visible inside the block.
C10_TransactionLaws ==
    [][/\ (last_op' = "rollback" /\ last_res' = "ok") =>
            (rows' = tx_base /\ depth' = 0)
       /\ (last_op' = "commit" /\ last_res' = "ok") => rows' = rows
       /\ (last_op' = "begin" /\ last_res' = "ok") => rows' = rows]_vars
C10_Witness ==
    /\ last_op = "rollback"
    /\ last_res = "ok"
    /\ pre_rows = {1, 2}
    /\ rows = {1}

\* ============================================================== row claims

C12_OutOfRangeIsError ==
    [][\A i \in 0..MaxCols :
          (row_idx' = i /\ i >= Len(row_orig)) =>
              /\ row_res' = ErrOutOfRange(i, Len(row_orig))
              /\ row_values' = row_values]_vars

\* C13: on a TursoRow the value of the first get(i) is that of the cell the
\* row was built with at i, whatever was read or failed before, and a get(i)
\* changes no slot other than i.
C13_AnyOrder ==
    [][\A i \in 0..MaxCols :
          (row_kind = "turso" /\ row_idx' = i) =>
              /\ (i < Len(row_orig) /\ i \notin row_seen) =>
                    row_res' = RowOk(TursoValueToRbs(row_orig[i + 1], row_json_detect))
              /\ Len(row_values') = Len(row_orig)
              /\ \A j \in 1..Len(row_orig) : j # i + 1 => row_values'[j] = row_values[j]]_vars
C13_Witness ==
    /\ row_kind = "turso"
    /\ row_orig = <<[t |-> "Integer", v |-> "1"], [t |-> "Text", v |-> "x"]>>
    /\ row_seen = {0, 1}
    /\ row_idx = 0
    /\ row_res = RowOk([t |-> "I64", v |-> "1"])
    /\ row_values = <<NoCell, NoCell>>

\* ========================================================= exchange claims

\* the positions of the unescaped `?` bytes of q: a `?` is escaped when the
\* byte before it is a backslash
UnescapedQ(q) == {i \in 1..Len(q) : q[i] = "?" /\ ~(i > 1 /\ q[i - 1] = "\\")}
\* the positions of the backslashes that escape a `?`
EscapeSlashes(q) == {i \in 1..Len(q) : q[i] = "\\" /\ i < Len(q) /\ q[i + 1] = "?"}
\* how many unescaped `?` stand left of position i
Rank(q, i) == Cardinality({j \in UnescapedQ(q) : j < i})
\* what the byte at position i becomes
Piece(p, n, q, i) ==
    IF i \in UnescapedQ(q) THEN p \o Decimal(n + Rank(q, i))
    ELSE IF i \in EscapeSlashes(q) THEN <<>>
    ELSE <<q[i]>>
RECURSIVE Pieces(_, _, _, _)
Pieces(p, n, q, m) ==
    IF m = 0 THEN <<>> ELSE Pieces(p, n, q, m - 1) \o Piece(p, n, q, m)
\* how often byte b occurs in q
Count(q, b) == Cardinality({i \in 1..Len(q) : q[i] = b})
\* the bytes of q that are neither a `?` nor an escaping backslash, in order
RECURSIVE PlainUpTo(_, _)
PlainUpTo(q, m) ==
    IF m = 0 THEN <<>>
    ELSE PlainUpTo(q, m - 1) \o
         (IF q[m] = "?" \/ m \in EscapeSlashes(q) THEN <<>> ELSE <<q[m]>>)
PlainBytes == SqlBytes \ {"?"}

\* C14: impl_exchange makes exactly as many substitutions as sql has
\* unescaped `?`, and the i-th of them from the left becomes the prefix
\* followed by the decimal form of n+i.
C14_CountingLaw ==
    ex_pc # "start" =>
        /\ ex_subs = Cardinality(UnescapedQ(ex_sql))
        /\ ex_out = Pieces(ex_p, ex_n, ex_sql, Len(ex_sql))
C14_Witness ==
    /\ ex_pc = "once"
    /\ ex_p = <<"@", "P">>
    /\ ex_n = 9
    /\ ex_sql = <<"?", "a", "?">>
    /\ ex_subs = 2
    /\ ex_out = <<"@", "P", "9", "a", "@", "P", "1", "0">>

\* C15: every `\?` pair comes out as one literal `?` and takes no index: the
\* output has one `?` per pair, loses exactly the escaping backslashes, and
\* an sql whose only `?` are escaped gets no substitution; "\?" gives "?".
C15_EscapeLaw ==
    ex_pc # "start" =>
        /\ Count(ex_out, "?") = Cardinality(EscapeSlashes(ex_sql))
        /\ Count(ex_out, "\\") = Count(ex_sql, "\\") - Cardinality(EscapeSlashes(ex_sql))
        /\ Count(ex_sql, "?") = Cardinality(EscapeSlashes(ex_sql)) => ex_subs = 0
        /\ ex_sql = <<"\\", "?">> => ex_out = <<"?">>
C15_Witness ==
    /\ ex_pc = "once"
    /\ ex_p = <<"$">>
    /\ ex_n = 9
    /\ ex_sql = <<"\\", "?">>
    /\ ex_out = <<"?">>
    /\ ex_subs = 0

\* C16: the bytes that are neither a `?` nor the backslash of a `\?` pair
\* are copied unchanged and in order; an sql without `?` comes out as it is.
C16_CopyThrough ==
    ex_pc # "start" =>
        /\ SelectSeq(ex_out, LAMBDA b : b \in PlainBytes) = PlainUpTo(ex_sql, Len(ex_sql))
        /\ Count(ex_sql, "?") = 0 => ex_out = ex_sql
C16_Witness ==
    /\ ex_pc = "once"
    /\ ex_sql = <<"\\", "a", "m1", "m2">>
    /\ ex_out = <<"\\", "a", "m1", "m2">>

\* C17 as stated: for an sql with at least one `?`, impl_exchange applied to
\* its own output gives a string different from that output.
C17_NeverIdempotent ==
    (ex_pc = "twice" /\ Count(ex_sql, "?") > 0) => ex_out2 # ex_out

\* C17 amended: impl_exchange applied to its own output changes it exactly
\* when that output still holds a `?`, which is when sql has an escaped
\* `\?`; when every `?` of sql is unescaped the second application returns
\* the output unchanged.
C17_SecondPass ==
    ex_pc = "twice" =>
        /\ (ex_out2 # ex_out) <=> (Count(ex_out, "?") > 0)
        /\ (Count(ex_out, "?") > 0) <=> (EscapeSlashes(ex_sql) # {})
C17_Witness ==
    /\ ex_pc = "twice"
    /\ ex_p = <<"$">>
    /\ ex_n = 1
    /\ ex_sql = <<"\\", "?", "?">>
    /\ ex_out = <<"?", "$", "1">>
    /\ ex_out2 = <<"$", "1", "$", "1">>

\* ========================================================== options claims

\* the last operation parsed a URI
Parsed == opt_op = "set_uri"
\* the keys of the query of the last URI
QueryKeys == {opt_query.params[i].k : i \in 1..Len(opt_query.params)}
\* the value of the last parameter with key k
LastValue(k) ==
    LET is == {i \in 1..Len(opt_query.params) : opt_query.params[i].k = k}
    IN  opt_query.params[CHOOSE i \in is : \A j \in is : j <= i].v
Recognized == {"url", "token", "json_detect"}

\* C18 as stated: a URI that does not start with turso:// is rejected.
C18_SchemeRequired ==
    (Parsed /\ opt_scheme # <<"turso://">>) => opt_res # OptResOk

\* C18 amended: a URI that starts with turso: without // is rejected with
\* the invalid-scheme error; a URI without any turso prefix is parsed as a
\* bare path or URL, exactly as the same text after turso:// is.
C18_TursoColonRejected ==
    Parsed =>
        /\ opt_scheme = <<"turso:">> => opt_res = ErrOptScheme
        /\ opt_scheme = <<>> =>
              /\ opt_res = FromStr(UriOf(<<"turso://">>, opt_path, opt_query)).res
              /\ opt_res = OptResOk =>
                    opt = FromStr(UriOf(<<"turso://">>, opt_path, opt_query)).opts
        /\ (opt_scheme = <<>> /\ opt_path = <<"/tmp/test.db">> /\ ~opt_query.present) =>
              (opt_res = OptResOk /\ opt.url = <<"/tmp/test.db">> /\ ~opt.in_memory)
C18_Witness ==
    /\ Parsed
    /\ opt_scheme = <<"turso:">>
    /\ opt_path = <<"/tmp/test.db">>
    /\ opt_res = ErrOptScheme

\* the URI has an accepted scheme and only recognized query parameters
WellFormed == Parsed /\ opt_scheme # <<"turso:">> /\ QueryKeys \subseteq Recognized

\* C19 as stated: a path part of :memory: or an empty one selects the
\* in-memory database, whether or not recognized parameters follow.
C19_MemoryPath ==
    (WellFormed /\ opt_path \in {MemoryUrl, <<>>}) =>
        (opt_res = OptResOk /\ opt.in_memory /\ opt.url = MemoryUrl)

\* C19 amended: a URI that is exactly :memory: or empty after the scheme
\* selects the in-memory database; when a query follows, a url parameter
\* decides: the database is in-memory iff the url parameter is :memory: or,
\* with no url parameter, the path is :memory:; an empty path with a query
\* and no url parameter is rejected.
C19_MemorySelection ==
    WellFormed =>
        /\ (opt_path \in {MemoryUrl, <<>>} /\ ~opt_query.present) =>
              (opt_res = OptResOk /\ opt = OptNew)
        /\ (opt_query.present /\ "url" \in QueryKeys) =>
              /\ opt_res = OptResOk
              /\ opt.url = <<LastValue("url")>>
              /\ opt.in_memory <=> (LastValue("url") = ":memory:")
        /\ (opt_query.present /\ "url" \notin QueryKeys /\ opt_path = MemoryUrl) =>
              (opt_res = OptResOk /\ opt.in_memory /\ opt.url = MemoryUrl)
        /\ (opt_query.present /\ "url" \notin QueryKeys /\ opt_path = <<>>) =>
              opt_res = ErrOptNoUrl
C19_Witness ==
    /\ Parsed
    /\ opt_scheme = <<"turso://">>
    /\ opt_path = MemoryUrl
    /\ opt_query = [present |-> TRUE, params |-> <<[k |-> "json_detect", v |-> "true"]>>]
    /\ opt_res = OptResOk
    /\ opt.in_memory
    /\ opt.json_detect

\* C20: set_uri rejects every URI whose query has a key other than url,
\* token and json_detect, and a rejected set_uri leaves the options as they
\* were.
C20_UnknownKeyRejected ==
    [][/\ (opt_op' = "set_uri" /\ \E i \in 1..Len(opt_query'.params) :
                                     opt_query'.params[i].k \notin Recognized) =>
            (opt_res' # OptResOk /\ opt' = opt)
       /\ (opt_op' = "set_uri" /\ opt_res' # OptResOk) => opt' = opt]_vars
C20_Witness ==
    /\ Parsed
    /\ opt_scheme = <<"turso://">>
    /\ opt_query = [present |-> TRUE,
                    params |-> <<[k |-> "url", v |-> "libsql://host"],
                                 [k |-> "bogus", v |-> "value"]>>]
    /\ opt_res = ErrOptUnknown(<<"bogus">>)
    /\ opt.url = <<"/tmp/test.db">>
    /\ opt.json_detect

\* the options are invalid: no URL, or a remote URL without a token that
\* holds anything but white space
BlankToken(t) == \A i \in 1..Len(t) : t[i] = " "
InvalidOptions(o) ==
    \/ o.url = <<>>
    \/ /\ o.url # <<>> /\ Head(o.url) \in RemoteHeads
       /\ (~o.auth_token.some \/ BlankToken(o.auth_token.v))
ConfigurationErrors == {ErrCfgEmptyUrl, ErrCfgToken}

TextRead ==
    /\ row_kind = "turso" /\ row_res.kind = "ok"
    /\ row_orig[row_idx + 1].t = "Text"
TextWas == row_orig[row_idx + 1].v
JsonTexts == {"null", "{k:v}"}

\* C22: with json_detect off every TEXT cell is read back as the String of
\* its text, JSON-shaped or not; with json_detect on a JSON-shaped text that
\* parses is read back as the decoded value and any other text as a String.
C22_TextReadBack ==
    TextRead =>
        /\ ~row_json_detect => row_res.value = [t |-> "String", v |-> TextWas]
        /\ row_json_detect =>
              IF TextWas \in JsonTexts
              THEN row_res.value.t \in {"Null", "Map"}
              ELSE row_res.value = [t |-> "String", v |-> TextWas]

\* ============================================================ exec claims

\* the rows the last exec changed: inserted or deleted
RowsChanged == (tbl \ exec_pre) \cup (exec_pre \ tbl)

\* C23: a successful exec returns an ExecResult whose last_insert_id is
\* Value::I64 of the connection's last inserted rowid, sign kept, and whose
\* rows_affected is the number of rows the statement changed.
C23_ExecResult ==
    exec_res.kind = "ok" =>
        /\ exec_res.last_insert_id = IntValue("I64", 0, last_rowid)
        /\ exec_res.rows_affected = Cardinality(RowsChanged)

\* ======================================================== registry claims

Records == {registry[i] : i \in 1..Len(registry)}
\* the gate's failures that name a record under a gate
Names(gate, id) == \E i \in 1..Len(gate_res.failures) :
    gate_res.failures[i].gate = gate /\ gate_res.failures[i].id = id

\* C24: the gate passes exactly when the validator reports no error, no
\* record is Rejected, none is Proposed and every Approved record has a
\* linked scenario; every Proposed record is named by a failure entry; and
\* after a Proposed record is approved or removed the gate passes when the
\* rest of the registry is valid.
C24_GateLaw ==
    gate_res.run =>
        /\ val_res = ValidateRegistry(registry)
        /\ gate_res.passed <=>
              /\ val_res.errors = <<>>
              /\ \A d \in Records : d.status \notin {"Rejected", "Proposed"}
              /\ \A d \in Records : d.status = "Approved" => d.linked_scenarios # <<>>
        /\ \A d \in Records : d.status = "Proposed" =>
              (~gate_res.passed /\ Names("PROPOSED", d.id))
        /\ (/\ reg_edit.op \in {"approve", "remove"} /\ reg_edit.was = "Proposed"
            /\ val_res.errors = <<>>
            /\ \A d \in Records : d.status # "Proposed") => gate_res.passed
C24_Witness ==
    /\ gate_res.run /\ gate_res.passed
    /\ reg_edit.op = "approve" /\ reg_edit.was = "Proposed"
    /\ Len(registry) = 2

Digits == {"0", "1", "2", "3", "4", "5", "6", "7", "8", "9"}
\* DEV- followed by three digits
MatchesDevNNN(id) ==
    Len(id) = 4 /\ id[1] = "DEV-" /\ \A i \in 2..4 : id[i] \in Digits
\* the scenarios of the record at position i
ScenariosAt(i) == {registry[i].linked_scenarios[j] :
                      j \in 1..Len(registry[i].linked_scenarios)}

\* C25: the validator reports a registry valid only if all ids are unique
\* and match DEV-###, every field is non-empty, every record has a linked
\* scenario, no scenario is claimed by two records and none is Rejected.
C25_ValidOnlyIf ==
    (val_res.run /\ IsValid(val_res)) =>
        /\ \A i, j \in 1..Len(registry) : registry[i].id = registry[j].id => i = j
        /\ \A d \in Records : MatchesDevNNN(d.id)
        /\ \A d \in Records :
              d.title # "" /\ d.summary # "" /\ d.user_impact # "" /\ d.rationale # ""
        /\ \A d \in Records : d.linked_scenarios # <<>>
        /\ \A i, j \in 1..Len(registry) : i # j => ScenariosAt(i) \cap ScenariosAt(j) = {}
        /\ \A d \in Records : d.status # "Rejected"

\* =========================================================== query claims

\* C26: for each row of a result, column_type(i) names the storage class of
\* the value in that row's cell i (the type of a NULL cell is left open).
C26_NamesCellType ==
    q_pc = "done" => \A r \in 1..Len(q_rows) : \A i \in ResultColumns :
        q_data[r][i] # "Null" => ColumnType(q_rows[r], i) = TypeName(q_data[r][i])

\* ======================================================= establish claims

StartupMessages ==
    {PgMessage("Authentication", m) : m \in {"Ok", "CleartextPassword", "Md5Password", "Sasl"}}
    \cup {PgMessage("BackendKeyData", "7")}
\* the messages before the last one
Earlier == {pg_msgs[i] : i \in 1..(Len(pg_msgs) - 1)}

\* C27: establish returns a connection only after a ReadyForQuery; until
\* then only Authentication (Ok, CleartextPassword, Md5Password, Sasl) and
\* BackendKeyData messages are accepted; any other message or method ends
\* establish with a protocol error and no connection.
C27_StartupFlow ==
    /\ pg_pc = "ready" =>
          /\ pg_msgs # <<>> /\ pg_msgs[Len(pg_msgs)].format = "ReadyForQuery"
          /\ Earlier \subseteq StartupMessages
    /\ pg_pc = "startup" => \A i \in 1..Len(pg_msgs) : pg_msgs[i] \in StartupMessages
    /\ \A i \in 1..Len(pg_msgs) :
          pg_msgs[i] \notin StartupMessages \cup {PgMessage("ReadyForQuery", "I")} =>
              /\ i = Len(pg_msgs)
              /\ pg_pc = "failed"
              /\ pg_res = IF pg_msgs[i].format = "Authentication"
                          THEN ErrUnsupportedAuth ELSE ErrUnexpectedMessage
C27_Witness ==
    /\ pg_pc = "failed" /\ pg_res = ErrUnexpectedMessage
    /\ Len(pg_msgs) = 3
    /\ pg_msgs[1] = PgMessage("Authentication", "Md5Password")
    /\ pg_msgs[2] = PgMessage("Authentication", "Ok")
    /\ pg_msgs[3] = PgMessage("DataRow", "")

\* ============================================ the two exchanges compared

\* C28: the byte scanner of util/exchange.rs and the char iteration of
\* util/mod.rs return the same output for every prefix, start number and
\* sql, with multi-byte characters, a trailing backslash and consecutive
\* escapes among them.
C28_SameOutput == (ex_pc # "start" /\ ex_cdone) => ex_out = ex_outc
C28_Witness ==
    /\ ex_pc # "start" /\ ex_cdone
    /\ ex_sql = <<"m1", "m2", "?", "\\">>
    /\ ex_p = <<"@", "P">> /\ ex_n = 9
    /\ ex_outc = <<"m1", "m2", "@", "P", "9", "\\">>

\* ================================================ options, the in-memory flag

\* C29: after any sequence of new, url, auth_token, json_detect and set_uri
\* (from_str), accepted or rejected, in_memory is true exactly when the url
\* is :memory:, so the options are never in-memory and remote at once.
C29_InMemoryIffMemoryUrl ==
    /\ opt.in_memory <=> (opt.url = MemoryUrl)
    /\ ~(opt.in_memory /\ IsRemote(opt))
C29_Witness ==
    /\ opt_op = "set_uri" /\ opt_res # OptResOk
    /\ opt.url = <<"libsql://host">> /\ ~opt.in_memory
    /\ opt.auth_token.some

\* ============================================================ time claims

\* C30: decoding the bytes Encode produced for a time of day yields a Time
\* with the same hour, minute, second and microseconds.
C30_DecodeInvertsEncode ==
    t_pc = "decoded" =>
        /\ t_out.hour = t_in.hour
        /\ t_out.minute = t_in.minute
        /\ t_out.sec = t_in.sec
        /\ t_out.nano \div 1000 = t_in.nano \div 1000
====
